---- MODULE Spec2Model ----
(***************************************************************************)
(* Model of the total_float_wrap crate: TotalF32 / TotalF64, wrappers      *)
(* around f32 / f64 whose Eq, Ord and Hash are derived from an integer     *)
(* key computed from the float's bit pattern (normalise).                  *)
(*                                                                         *)
(* A W-bit integer is a sequence of W bits, most significant bit first     *)
(* (index 1 is the sign bit of the signed reading), so that both widths    *)
(* are modelled at their real size, 32 and 64.  A native float is the      *)
(* record of its three IEEE-754 fields.                                    *)
(***************************************************************************)
EXTENDS Integers, Sequences, FiniteSets, TLC

VARIABLES w, a, b, fl, op, res, triangles, inserted

vars == <<w, a, b, fl, op, res, triangles, inserted>>

(* ---------------------------- bounds ----------------------------------- *)

\* Largest small payload put in the low bits of a sampled mantissa.
MaxLow == 1

\* Largest number of writes a hasher has already absorbed before Hash.
MaxWrites == 1

\* Largest number of iterations of the grouping loop that are followed.
MaxInserts == 3

(* ------------------------- integers as bits ---------------------------- *)

RECURSIVE Bits(_, _)
\* The k low bits of the natural number n, most significant first.
Bits(n, k) == IF k = 0 THEN <<>> ELSE Bits(n \div 2, k - 1) \o <<n % 2>>

Fill(bit, k) == [i \in 1..k |-> bit]

\* ^ on integers of one width
BitXor(x, y) == [i \in 1..Len(x) |-> (x[i] + y[i]) % 2]

\* | on integers of one width
BitOr(x, y) == [i \in 1..Len(x) |-> IF x[i] + y[i] > 0 THEN 1 ELSE 0]

\* & on integers of one width
BitAnd(x, y) == [i \in 1..Len(x) |-> x[i] * y[i]]

\* ! on an integer
BitNot(x) == [i \in 1..Len(x) |-> 1 - x[i]]

\* >> on a signed integer: arithmetic shift, the sign bit is replicated
ShrSigned(x, n) == [i \in 1..Len(x) |-> IF i <= n THEN x[1] ELSE x[i - n]]

\* >> on an unsigned integer: logical shift, zeros are shifted in
ShrUnsigned(x, n) == [i \in 1..Len(x) |-> IF i <= n THEN 0 ELSE x[i - n]]

\* 1 << n on an unsigned integer of k bits (n < k)
OneShl(n, k) == [i \in 1..k |-> IF i = k - n THEN 1 ELSE 0]

\* x + y on the k low bits: the bits of the sum and the carry out of them
RECURSIVE AddLow(_, _, _)
AddLow(x, y, k) ==
    IF k = 0 THEN [carry |-> 0, sum |-> <<>>]
    ELSE LET r == AddLow(x, y, k - 1)
             t == x[Len(x) - k + 1] + y[Len(x) - k + 1] + r.carry
         IN  [carry |-> t \div 2, sum |-> <<t % 2>> \o r.sum]

\* wrapping + on unsigned integers of one width
BitAdd(x, y) ==
    LET xs == x \o <<>>
        ys == y \o <<>>
    IN  AddLow(xs, ys, Len(xs)).sum

\* `as` between the signed and the unsigned integer type of one width:
\* the bits are kept, only the reading changes
AsSigned(x) == x
AsUnsigned(x) == x

\* Ord::cmp of the primitive signed integers (two's complement)
int_cmp(x, y) ==
    IF x = y THEN "Equal"
    ELSE LET i == CHOOSE j \in 1..Len(x) :
                     x[j] # y[j] /\ \A k \in 1..(j - 1) : x[k] = y[k]
         IN  IF i = 1
             THEN (IF x[1] = 1 THEN "Less" ELSE "Greater")
             ELSE (IF x[i] < y[i] THEN "Less" ELSE "Greater")

(* ------------------------------ floats --------------------------------- *)

Widths == {32, 64}

\* f32::MANTISSA_DIGITS = 24, f64::MANTISSA_DIGITS = 53
MANTISSA_DIGITS(width) == IF width = 32 THEN 24 ELSE 53

FracBits(width) == MANTISSA_DIGITS(width) - 1
ExpBits(width) == width - 1 - FracBits(width)

\* exponent field of 1.0, and the all-ones exponent field (infinity, NaN)
Bias(width) == IF width = 32 THEN 127 ELSE 1023
ExpMax(width) == 2 * Bias(width) + 1

MkFloat(s, e, m) == [sign |-> s, exp |-> e, frac |-> m]

\* f32::to_bits / f64::to_bits
to_bits(f) == <<f.sign>> \o f.exp \o f.frac

\* f32::from_bits / f64::from_bits
from_bits(bits, width) ==
    MkFloat(bits[1],
            SubSeq(bits, 2, 1 + ExpBits(width)),
            SubSeq(bits, 2 + ExpBits(width), width))

\* Neg for f32 / f64: the sign bit is flipped, for NaN too
float_neg(f) == [f EXCEPT !.sign = 1 - @]

\* f32::default() / f64::default(): 0.0
float_default(width) ==
    MkFloat(0, Fill(0, ExpBits(width)), Fill(0, FracBits(width)))

\* PartialEq of the native floats: NaN differs from everything, the two
\* zeros are equal
IsNaN(f) == (\A i \in 1..Len(f.exp) : f.exp[i] = 1)
            /\ (\E i \in 1..Len(f.frac) : f.frac[i] = 1)
IsZero(f) == (\A i \in 1..Len(f.exp) : f.exp[i] = 0)
             /\ (\A i \in 1..Len(f.frac) : f.frac[i] = 0)
float_eq(f, g) ==
    /\ ~IsNaN(f)
    /\ ~IsNaN(g)
    /\ (f = g \/ (IsZero(f) /\ IsZero(g)))

(* The floats the model draws its inputs from.  A grid: both signs, the    *)
(* exponent fields of zero/subnormals, of the smallest normal, of 1.0, of  *)
(* the largest finite and of infinity/NaN, with the mantissas zero, a      *)
(* small payload, the top bit only, and all ones.  Added to it: the        *)
(* remaining values the crate's tests rank (0.5, 2.5, and the NaN with     *)
(* payload 42), with both signs.                                           *)
ExpSamples(width) ==
    { Bits(e, ExpBits(width)) :
        e \in {0, 1, Bias(width), ExpMax(width) - 1, ExpMax(width)} }

FracSamples(width) ==
    { Bits(lo, FracBits(width)) : lo \in 0..MaxLow }
    \cup { <<1>> \o Fill(0, FracBits(width) - 1) }
    \cup { Fill(1, FracBits(width)) }

Floats(width) ==
    { MkFloat(s, e, m) :
        s \in {0, 1}, e \in ExpSamples(width), m \in FracSamples(width) }
    \cup { MkFloat(s, Bits(Bias(width) - 1, ExpBits(width)),
                   Fill(0, FracBits(width))) : s \in {0, 1} }
    \cup { MkFloat(s, Bits(Bias(width) + 1, ExpBits(width)),
                   <<0, 1>> \o Fill(0, FracBits(width) - 2)) : s \in {0, 1} }
    \cup { MkFloat(s, Bits(ExpMax(width), ExpBits(width)),
                   Bits(42, FracBits(width))) : s \in {0, 1} }

(* ----------------------------- wrappers -------------------------------- *)

\* the tuple structs TotalF32(pub f32) and TotalF64(pub f64)
TotalF32(f) == [v |-> f]
TotalF64(f) == [v |-> f]

\* a Default written by hand that takes the zero of the wrong sign
TotalF32_default_negzero == TotalF32(float_neg(float_default(32)))

\* #[derive(Default)]
TotalF32_default == TotalF32(float_default(32))
TotalF64_default == TotalF64(float_default(64))

\* the key without the mask: the raw bits read as a signed integer
TotalF32_normalise_raw(self) == AsSigned(to_bits(self.v))

\* the mask of TotalF32::normalise: ((val >> 31) as u32) >> 1
TotalF32_mask(val) == AsSigned(ShrUnsigned(AsUnsigned(ShrSigned(val, 31)), 1))

TotalF32_normalise(self) ==
    LET val == AsSigned(to_bits(self.v))
    IN  BitXor(val, TotalF32_mask(val))

\* the 64-bit key with the shift of the 32-bit one
TotalF64_normalise_shift31(self) ==
    LET val == AsSigned(to_bits(self.v))
    IN  BitXor(val, AsSigned(ShrUnsigned(AsUnsigned(ShrSigned(val, 31)), 1)))

\* a mask without the unsigned shift: the sign bit is in it too
TotalF64_mask_allones(val) == AsSigned(AsUnsigned(ShrSigned(val, 63)))

\* the mask of TotalF64::normalise: ((val >> 63) as u64) >> 1
TotalF64_mask(val) == AsSigned(ShrUnsigned(AsUnsigned(ShrSigned(val, 63)), 1))

TotalF64_normalise(self) ==
    LET val == AsSigned(to_bits(self.v))
    IN  BitXor(val, TotalF64_mask(val))

\* `as i32` on a u64: the low 32 bits are kept
TruncI32(x) == SubSeq(x, Len(x) - 31, Len(x))

\* an i32 as a value of the i64 that FloatNormalise for f64 declares as
\* its result type I: the value is kept, the sign bit is replicated
AsI64(x) == Fill(x[1], 64 - Len(x)) \o x

\* the steps of FloatNormalise::normalise for f64 in lib.rs: the value
\* read, the mask, and the result of the xor
f64_normalise_val(self) == TruncI32(to_bits(self))
f64_normalise_mask(val) == AsSigned(ShrUnsigned(AsUnsigned(ShrSigned(val, 31)), 1))
f64_normalise(self) ==
    LET val == f64_normalise_val(self)
    IN  BitXor(val, f64_normalise_mask(val))

\* From<TotalF32> for f32, From<TotalF64> for f64
f32_from(t) == t.v
f64_from(t) == t.v

\* a conversion that replaces every NaN by the canonical one
TotalF32_from_canonical(f) ==
    IF IsNaN(f)
    THEN TotalF32(MkFloat(0, Fill(1, ExpBits(32)),
                          <<1>> \o Fill(0, FracBits(32) - 1)))
    ELSE TotalF32(f)

\* From<f32> for TotalF32, From<f64> for TotalF64
TotalF32_from(f) == TotalF32(f)
TotalF64_from(f) == TotalF64(f)

\* equality of the wrapped floats themselves (a derived PartialEq)
TotalF32_eq_native(self, other) == float_eq(self.v, other.v)
TotalF64_eq_native(self, other) == float_eq(self.v, other.v)

\* impl PartialEq
TotalF32_eq(self, other) == TotalF32_normalise(self) = TotalF32_normalise(other)
TotalF64_eq(self, other) == TotalF64_normalise(self) = TotalF64_normalise(other)

\* the floats' own comparison with a fallback for the unordered case
TotalF32_cmp_native(self, other) ==
    IF IsNaN(self.v) \/ IsNaN(other.v) THEN "Less"
    ELSE IF float_eq(self.v, other.v) THEN "Equal"
    ELSE int_cmp(TotalF32_normalise(self), TotalF32_normalise(other))

\* the operands taken in the wrong order
TotalF64_cmp_swapped(self, other) ==
    int_cmp(TotalF64_normalise(other), TotalF64_normalise(self))

\* impl Ord
TotalF32_cmp(self, other) ==
    int_cmp(TotalF32_normalise(self), TotalF32_normalise(other))
TotalF64_cmp(self, other) ==
    int_cmp(TotalF64_normalise(self), TotalF64_normalise(other))

\* Option<Ordering>
Some(x) == <<"Some", x>>
None == <<"None">>

\* a partial_cmp that gives up on NaN as the floats' own does
TotalF64_partial_cmp_native(self, other) ==
    IF IsNaN(self.v) \/ IsNaN(other.v) THEN None
    ELSE Some(TotalF64_cmp(self, other))

\* impl PartialOrd
TotalF32_partial_cmp(self, other) == Some(TotalF32_cmp(self, other))
TotalF64_partial_cmp(self, other) == Some(TotalF64_cmp(self, other))

\* Hash for i32 / i64: one write_i32 / write_i64 call on the hasher; a
\* hasher is the sequence of the writes it has absorbed
i32_hash(val, state) == Append(state, [call |-> "write_i32", val |-> val])
i64_hash(val, state) == Append(state, [call |-> "write_i64", val |-> val])

\* a hash fed with the raw bits instead of the key
TotalF64_hash_bits(self, state) == i64_hash(AsSigned(to_bits(self.v)), state)

\* impl Hash
TotalF32_hash(self, state) == i32_hash(TotalF32_normalise(self), state)
TotalF64_hash(self, state) == i64_hash(TotalF64_normalise(self), state)

\* negation by subtracting from zero: a NaN keeps its sign, and a zero
\* comes out as +0.0
TotalF64_neg_sub(self) ==
    IF IsNaN(self.v) THEN self
    ELSE IF IsZero(self.v) THEN TotalF64(float_default(64))
    ELSE TotalF64(float_neg(self.v))

\* the test helper: impl Neg
TotalF32_neg(self) == TotalF32(float_neg(self.v))
TotalF64_neg(self) == TotalF64(float_neg(self.v))

(* dispatch on the width of the instantiation in use *)
Wrap(f) == IF w = 32 THEN TotalF32(f) ELSE TotalF64(f)
normalise(t) == IF w = 32 THEN TotalF32_normalise(t) ELSE TotalF64_normalise(t)
eq(s, o) == IF w = 32 THEN TotalF32_eq(s, o) ELSE TotalF64_eq(s, o)
cmp(s, o) == IF w = 32 THEN TotalF32_cmp(s, o) ELSE TotalF64_cmp(s, o)
partial_cmp(s, o) ==
    IF w = 32 THEN TotalF32_partial_cmp(s, o) ELSE TotalF64_partial_cmp(s, o)
hash(t, st) == IF w = 32 THEN TotalF32_hash(t, st) ELSE TotalF64_hash(t, st)
into_float(t) == IF w = 32 THEN f32_from(t) ELSE f64_from(t)
from_float(f) == IF w = 32 THEN TotalF32_from(f) ELSE TotalF64_from(f)
default == IF w = 32 THEN TotalF32_default ELSE TotalF64_default
neg(t) == IF w = 32 THEN TotalF32_neg(t) ELSE TotalF64_neg(t)
mask(val) == IF w = 32 THEN TotalF32_mask(val) ELSE TotalF64_mask(val)

(* --------------------------- state machine ----------------------------- *)

\* a hasher that has already absorbed n writes of the default key
Absorbed(n) == [i \in 1..n |-> [call |-> "write", val |-> normalise(default)]]

Init ==
    /\ w \in Widths
    /\ fl \in Floats(w)
    /\ a = Wrap(fl)
    /\ \E g \in Floats(w) : b = Wrap(g)
    /\ op = "new"
    /\ res = "none"
    /\ triangles = {}
    /\ inserted = <<>>

\* a == b
Eq ==
    /\ op' = "eq"
    /\ res' = eq(a, b)
    /\ UNCHANGED <<triangles, inserted, w, a, b, fl>>

\* a.cmp(&b)
Cmp ==
    /\ op' = "cmp"
    /\ res' = cmp(a, b)
    /\ UNCHANGED <<triangles, inserted, w, a, b, fl>>

\* a.partial_cmp(&b)
PartialCmp ==
    /\ op' = "partial_cmp"
    /\ res' = partial_cmp(a, b)
    /\ UNCHANGED <<triangles, inserted, w, a, b, fl>>

\* the private helper applied to both operands
Normalise ==
    /\ op' = "normalise"
    /\ res' = [ka |-> normalise(a), kb |-> normalise(b),
               ma |-> mask(AsSigned(to_bits(a.v)))]
    /\ UNCHANGED <<triangles, inserted, w, a, b, fl>>

\* a.hash(&mut state) and b.hash(&mut state), each on its own copy of one
\* hasher state
Hash ==
    /\ \E n \in 0..MaxWrites :
         res' = [start |-> Absorbed(n),
                 ha |-> hash(a, Absorbed(n)),
                 hb |-> hash(b, Absorbed(n))]
    /\ op' = "hash"
    /\ UNCHANGED <<triangles, inserted, w, a, b, fl>>

\* let a: TotalF = fl.into(), for the float fl the caller holds
FromFloat ==
    /\ a' = from_float(fl)
    /\ op' = "from"
    /\ res' = "none"
    /\ UNCHANGED <<triangles, inserted, w, b, fl>>

\* a conversion that takes the float out and leaves the default behind
IntoFloat_take ==
    /\ res' = into_float(a)
    /\ a' = default
    /\ op' = IF op = "from" THEN "from_into" ELSE "into"
    /\ UNCHANGED <<triangles, inserted, w, b, fl>>

\* let v_f: f = a.into(); the tag tells whether a has just been made from
\* fl by FromFloat
IntoFloat ==
    /\ res' = into_float(a)
    /\ op' = IF op = "from" THEN "from_into" ELSE "into"
    /\ UNCHANGED <<triangles, inserted, w, a, b, fl>>

\* the float just taken out of a is wrapped again, as b
Back ==
    /\ op \in {"into", "from_into"}
    /\ b' = from_float(res)
    /\ op' = "back"
    /\ UNCHANGED <<triangles, inserted, w, a, fl, res>>

\* let b: TotalF = Default::default()
Default ==
    /\ b' = default
    /\ op' = "default"
    /\ res' = "none"
    /\ UNCHANGED <<triangles, inserted, w, a, fl>>

\* let b = -b; res keeps the operand
Neg ==
    /\ b' = neg(b)
    /\ op' = "neg"
    /\ res' = b
    /\ UNCHANGED <<triangles, inserted, w, a, fl>>

\* (-a).cmp(&-b); res keeps the two negated wrappers
NegCmp ==
    /\ op' = "neg_cmp"
    /\ res' = [na |-> neg(a), nb |-> neg(b), ord |-> cmp(neg(a), neg(b))]
    /\ UNCHANGED <<triangles, inserted, w, a, b, fl>>

\* FloatNormalise::normalise on the f64 that a wraps
FloatNormalise ==
    /\ w = 64
    /\ op' = "float_normalise"
    /\ res' = [val |-> f64_normalise_val(a.v),
               mask |-> f64_normalise_mask(f64_normalise_val(a.v)),
               key |-> AsI64(f64_normalise(a.v))]
    /\ UNCHANGED <<triangles, inserted, w, a, b, fl>>

Next ==
    \/ Normalise
    \/ Eq
    \/ Cmp
    \/ PartialCmp
    \/ Hash
    \/ FromFloat
    \/ IntoFloat
    \/ Back
    \/ Default
    \/ Neg
    \/ NegCmp
    \/ FloatNormalise

Spec == Init /\ [][Next]_vars

TypeOK ==
    /\ w \in Widths
    /\ Len(to_bits(a.v)) = w
    /\ Len(to_bits(b.v)) = w
    /\ Len(to_bits(fl)) = w
    /\ a = Wrap(fl)
    /\ op \in {"new", "normalise", "eq", "cmp", "partial_cmp", "hash", "from",
               "into", "from_into", "back", "default", "neg", "neg_cmp",
               "float_normalise"}

(* ------------------------ the tests' fixtures -------------------------- *)

\* f32::NAN / f64::NAN: positive, exponent all ones, top mantissa bit set
NAN == MkFloat(0, Fill(1, ExpBits(w)), <<1>> \o Fill(0, FracBits(w) - 1))

INFINITY == MkFloat(0, Fill(1, ExpBits(w)), Fill(0, FracBits(w)))

\* the largest finite value
MAX == MkFloat(0, Bits(ExpMax(w) - 1, ExpBits(w)), Fill(1, FracBits(w)))

\* the smallest positive normal value
MIN_POSITIVE == MkFloat(0, Bits(1, ExpBits(w)), Fill(0, FracBits(w)))

\* the literals 0.0, 0.5, 1.0, 1.5, 2.5
Lit0_0 == MkFloat(0, Fill(0, ExpBits(w)), Fill(0, FracBits(w)))
Lit0_5 == MkFloat(0, Bits(Bias(w) - 1, ExpBits(w)), Fill(0, FracBits(w)))
Lit1_0 == MkFloat(0, Bits(Bias(w), ExpBits(w)), Fill(0, FracBits(w)))
Lit1_5 == MkFloat(0, Bits(Bias(w), ExpBits(w)), <<1>> \o Fill(0, FracBits(w) - 1))
Lit2_5 == MkFloat(0, Bits(Bias(w) + 1, ExpBits(w)),
                  <<0, 1>> \o Fill(0, FracBits(w) - 2))

quiet_bit_mask == OneShl(MANTISSA_DIGITS(w) - 2, w)

\* MIN_POSITIVE / 2^(MANTISSA_DIGITS - 1): an exact division, the smallest
\* subnormal, whose only set bit is the lowest mantissa bit
min_subnorm == Wrap(MkFloat(0, Fill(0, ExpBits(w)), Bits(1, FracBits(w))))

\* MIN_POSITIVE - min_subnorm: an exact subtraction, the largest subnormal,
\* exponent field zero and mantissa all ones
max_subnorm == Wrap(MkFloat(0, Fill(0, ExpBits(w)), Fill(1, FracBits(w))))

q_nan == Wrap(from_bits(BitOr(to_bits(NAN), quiet_bit_mask), w))

s_nan ==
    Wrap(from_bits(BitAdd(BitAnd(to_bits(NAN), BitNot(quiet_bit_mask)),
                          Bits(42, w)), w))

\* the values the cmp tests rank, in the order in which they assert Less
Ranking ==
    << neg(q_nan), neg(s_nan),
       Wrap(float_neg(INFINITY)), Wrap(float_neg(MAX)),
       Wrap(float_neg(Lit2_5)), Wrap(float_neg(Lit1_5)),
       Wrap(float_neg(Lit1_0)), Wrap(float_neg(Lit0_5)),
       Wrap(float_neg(MIN_POSITIVE)), neg(max_subnorm), neg(min_subnorm),
       Wrap(float_neg(Lit0_0)), Wrap(Lit0_0),
       min_subnorm, max_subnorm, Wrap(MIN_POSITIVE),
       Wrap(Lit0_5), Wrap(Lit1_0), Wrap(Lit1_5), Wrap(Lit2_5),
       Wrap(MAX), Wrap(INFINITY), s_nan, q_nan >>

(* ------------------------------ claims --------------------------------- *)

\* x < y on the bits after the sign bit, read as an unsigned number
MagLess(x, y) ==
    \E i \in 2..Len(x) : x[i] < y[i] /\ \A k \in 2..(i - 1) : x[k] = y[k]

\* IEEE-754 totalOrder on bit patterns: x precedes or equals y
TotalOrderLe(x, y) ==
    \/ x = y
    \/ x[1] = 1 /\ y[1] = 0
    \/ x[1] = 0 /\ y[1] = 0 /\ MagLess(x, y)
    \/ x[1] = 1 /\ y[1] = 1 /\ MagLess(y, x)

\* x < y for two's complement integers of one width
KeyLess(x, y) ==
    \/ x[1] = 1 /\ y[1] = 0
    \/ x[1] = y[1] /\ MagLess(x, y)

KeyOrder(x, y) ==
    IF KeyLess(x, y) THEN "Less" ELSE IF KeyLess(y, x) THEN "Greater" ELSE "Equal"

\* C1: for both widths and every pair of bit patterns, NaNs, zeros,
\* infinities and subnormals included, normalise(a) <= normalise(b) as
\* signed integers exactly when a precedes or equals b under totalOrder.
C1_NormaliseIsTotalOrder ==
    op = "normalise" =>
        ((KeyLess(res.ka, res.kb) \/ res.ka = res.kb)
            <=> TotalOrderLe(to_bits(a.v), to_bits(b.v)))

\* two negative NaNs of different payload have been normalised: the one
\* with the larger payload comes first
C1_Witness ==
    /\ op = "normalise"
    /\ IsNaN(a.v) /\ IsNaN(b.v)
    /\ a.v.sign = 1 /\ b.v.sign = 1
    /\ MagLess(to_bits(b.v), to_bits(a.v))
    /\ KeyLess(res.ka, res.kb)

\* C2: a == b is true exactly when normalise(a) = normalise(b), for NaN
\* operands and for zeros of differing sign too.
C2_EqIsKeyEquality ==
    op = "eq" => (res <=> (normalise(a) = normalise(b)))

\* the two zeros have been compared for equality and found different
C2_Witness ==
    /\ op = "eq"
    /\ IsZero(a.v) /\ IsZero(b.v)
    /\ a.v.sign # b.v.sign
    /\ res = FALSE

\* the write a wrapper's key makes on a hasher
KeyWrite(t) ==
    [call |-> IF w = 32 THEN "write_i32" ELSE "write_i64", val |-> normalise(t)]

\* C3: from any hasher state, hashing a feeds the hasher exactly
\* normalise(a) and nothing else, and if a == b then hashing a and hashing
\* b leave the hasher in the same state.
C3_HashFromKeyOnly ==
    op = "hash" =>
        /\ res.ha = Append(res.start, KeyWrite(a))
        /\ res.hb = Append(res.start, KeyWrite(b))
        /\ eq(a, b) => res.ha = res.hb

\* two equal NaN wrappers have been hashed into a hasher that had already
\* absorbed something
C3_Witness ==
    /\ op = "hash"
    /\ IsNaN(a.v)
    /\ eq(a, b)
    /\ Len(res.start) > 0
    /\ res.ha = res.hb

\* C4: cmp returns Less, Equal or Greater as the signed integer comparison
\* of normalise(a) with normalise(b) does; it is Equal exactly when a == b;
\* and partial_cmp is always Some(cmp), never None, for NaN operands too.
C4_CmpTotalAndConsistent ==
    /\ op = "cmp" =>
        /\ res \in {"Less", "Equal", "Greater"}
        /\ res = KeyOrder(normalise(a), normalise(b))
        /\ (res = "Equal") <=> eq(a, b)
    /\ op = "partial_cmp" =>
        /\ res # None
        /\ res = Some(cmp(a, b))
        /\ res = Some(KeyOrder(normalise(a), normalise(b)))

\* a NaN has been compared by partial_cmp with a number and ordered
C4_Witness ==
    /\ op = "partial_cmp"
    /\ IsNaN(a.v)
    /\ ~IsNaN(b.v)
    /\ res = Some("Greater")

\* C5: a float made into a wrapper and taken out again has the bit pattern
\* it started with, whatever NaN, zero, infinity or subnormal it is; and a
\* wrapper taken out as a float and wrapped again equals the original.
C5_RoundTripBitExact ==
    /\ op = "from" => to_bits(a.v) = to_bits(fl)
    /\ op \in {"into", "from_into"} => to_bits(res) = to_bits(a.v)
    /\ op = "from_into" => to_bits(res) = to_bits(fl)
    /\ op = "back" => (to_bits(b.v) = to_bits(a.v) /\ eq(b, a))

\* a negative NaN with a payload in its low bits has gone into a wrapper
\* and come out again
C5_Witness ==
    /\ op = "from_into"
    /\ IsNaN(fl)
    /\ fl.sign = 1
    /\ fl.frac[Len(fl.frac)] = 1
    /\ to_bits(res) = to_bits(fl)

\* C6: a == b is true exactly when the wrapped bit patterns are identical:
\* NaNs of one bit pattern are equal, NaNs that differ in payload or sign
\* are not.
C6_EqIsBitIdentity ==
    op = "eq" => (res <=> (to_bits(a.v) = to_bits(b.v)))

\* two NaNs of one sign and different payloads have been found unequal
C6_Witness ==
    /\ op = "eq"
    /\ IsNaN(a.v) /\ IsNaN(b.v)
    /\ a.v.sign = b.v.sign
    /\ a.v.frac # b.v.frac
    /\ res = FALSE

NegZero == Wrap(float_neg(Lit0_0))
PosZero == Wrap(Lit0_0)

\* C7: -0.0 compares Less than +0.0 and +0.0 Greater than -0.0, the two are
\* not equal, and no bit pattern lies strictly between them.
C7_SignedZeros ==
    /\ (op = "cmp" /\ a = NegZero /\ b = PosZero) => res = "Less"
    /\ (op = "cmp" /\ a = PosZero /\ b = NegZero) => res = "Greater"
    /\ (op = "eq" /\ {a, b} = {NegZero, PosZero}) => res = FALSE
    /\ op = "normalise" =>
         ~(/\ KeyLess(normalise(NegZero), res.ka)
           /\ KeyLess(res.ka, normalise(PosZero)))

\* -0.0 has been compared with +0.0
C7_Witness ==
    /\ op = "cmp"
    /\ a = NegZero
    /\ b = PosZero
    /\ res = "Less"

\* position, from the most significant bit, of bit MANTISSA_DIGITS - 2
QuietPos == w - (MANTISSA_DIGITS(w) - 2)

\* C8: for both widths the tests' values are strictly ascending under cmp,
\* from the negative quiet NaN up to the quiet NaN: an earlier one compares
\* Less than a later one and a later one Greater than an earlier one.  The
\* quiet and the signaling NaN differ in the quiet bit, the signaling NaN
\* has a payload, and negating changes the sign bit only.
C8_FullRanking ==
    LET R == Ranking
        q == to_bits(q_nan.v)
        s == to_bits(s_nan.v)
    IN  /\ op = "cmp" =>
             \A i \in 1..Len(R) :
                a = R[i] =>
                    \A j \in 1..Len(R) :
                       b = R[j] =>
                           /\ i < j => res = "Less"
                           /\ i > j => res = "Greater"
        /\ op = "neg" =>
             /\ to_bits(b.v)[1] = 1 - to_bits(res.v)[1]
             /\ \A k \in 2..w : to_bits(b.v)[k] = to_bits(res.v)[k]
             /\ res = q_nan => b = R[1]
             /\ res = s_nan => b = R[2]
             /\ IsNaN(q_nan.v) /\ IsNaN(s_nan.v)
             /\ q[QuietPos] = 1
             /\ s[QuietPos] = 0
             /\ \E k \in (QuietPos + 1)..w : s[k] = 1

\* the negative quiet NaN has been compared with the negative signaling NaN
C8_Witness ==
    /\ op = "cmp"
    /\ a = neg(q_nan)
    /\ b = neg(s_nan)
    /\ res = "Less"

\* C9: a wrapper equals its own bit pattern and compares Equal with it,
\* for every NaN too.
C9_Reflexive ==
    /\ (op = "eq" /\ to_bits(a.v) = to_bits(b.v)) => res = TRUE
    /\ (op = "cmp" /\ to_bits(a.v) = to_bits(b.v)) => res = "Equal"

\* a NaN has been compared with itself
C9_Witness ==
    /\ op = "cmp"
    /\ IsNaN(a.v)
    /\ to_bits(a.v) = to_bits(b.v)
    /\ res = "Equal"

\* C10: the default wrapper wraps +0.0, the all-zero bit pattern: it
\* equals the wrapper of +0.0, differs from the wrapper of -0.0, and its
\* key is 0.
C10_DefaultIsPosZero ==
    op = "default" =>
        /\ to_bits(b.v) = Fill(0, w)
        /\ eq(b, PosZero)
        /\ ~eq(b, NegZero)
        /\ normalise(b) = Fill(0, w)

\* the default wrapper has been made next to a wrapper of -0.0
C10_Witness ==
    /\ op = "default"
    /\ a = NegZero
    /\ cmp(a, b) = "Less"

(* --------------------- grouping in a HashMap --------------------------- *)

\* the bounds of the two loops of the example
start_adj == 1
end_adj == 10
start_opp == 1
end_opp == 30

\* the pair (adjacent, opposite) of the n-th iteration, counted from 0
PairAt(n) ==
    << start_adj + (n \div (end_opp - start_opp + 1)),
       start_opp + (n % (end_opp - start_opp + 1)) >>

\* the keys the loop may meet: the angle is left open, so that NaNs and
\* both zeros are among them
KeyFloats ==
    { float_default(64), float_neg(float_default(64)),
      MkFloat(0, Fill(1, ExpBits(64)), <<1>> \o Fill(0, FracBits(64) - 1)),
      MkFloat(1, Fill(1, ExpBits(64)), <<1>> \o Fill(0, FracBits(64) - 1)),
      MkFloat(0, Fill(1, ExpBits(64)), Bits(42, FracBits(64))),
      MkFloat(0, Bits(Bias(64), ExpBits(64)), Fill(0, FracBits(64))) }

RECURSIVE Ones(_, _)
\* the number of bits set among the first k bits of x
Ones(x, k) == IF k = 0 THEN 0 ELSE x[k] + Ones(x, k - 1)

\* Hasher::finish: a digest of the writes absorbed, here with two values
\* only, so that different keys share a bucket
finish(state) ==
    IF state = <<>> THEN 0
    ELSE LET v == state[Len(state)].val \o <<>>
         IN  Ones(v, Len(v)) % 2

\* the hash under which the map files a key
make_hash(k) == finish(hash(k, <<>>))

\* the entries a probe for k stops at: filed under k's hash and equal to k
find(map, k) ==
    { e \in map : make_hash(e.key) = make_hash(k) /\ eq(k, e.key) }

\* map.entry(k).or_default().push(pair)
entry_or_default_push(map, k, pair) ==
    LET found == find(map, k)
    IN  IF found = {}
        THEN map \cup { [key |-> k, vals |-> <<pair>>] }
        ELSE LET e == CHOOSE x \in found : TRUE
             IN  (map \ {e}) \cup { [e EXCEPT !.vals = Append(@, pair)] }

\* map.get(&k)
get(map, k) ==
    LET found == find(map, k)
    IN  IF found = {} THEN None
        ELSE Some((CHOOSE x \in found : TRUE).vals)

InitMap ==
    /\ w = 64
    /\ fl = float_default(64)
    /\ a = TotalF64(fl)
    /\ b = TotalF64(fl)
    /\ op = "new"
    /\ res = "none"
    /\ triangles = {}
    /\ inserted = <<>>

\* one iteration of the loop body, for some angle
Insert ==
    /\ Len(inserted) < MaxInserts
    /\ \E f \in KeyFloats :
         /\ triangles' = entry_or_default_push(triangles, from_float(f),
                                               PairAt(Len(inserted)))
         /\ inserted' = Append(inserted,
                               [key |-> f, pair |-> PairAt(Len(inserted))])
    /\ op' = "insert"
    /\ res' = "none"
    /\ UNCHANGED <<w, a, b, fl>>

\* map.get(&f.into())
Get ==
    /\ \E f \in KeyFloats :
         res' = [key |-> f, got |-> get(triangles, from_float(f))]
    /\ op' = "get"
    /\ UNCHANGED <<triangles, inserted, w, a, b, fl>>

NextMap ==
    \/ Insert
    \/ Get

SpecMap == InitMap /\ [][NextMap]_vars

\* the pairs inserted under the bit pattern of f, in the order of insertion
RECURSIVE PairsOf(_, _)
PairsOf(f, n) ==
    IF n = 0 THEN <<>>
    ELSE IF to_bits(inserted[n].key) = to_bits(f)
         THEN Append(PairsOf(f, n - 1), inserted[n].pair)
         ELSE PairsOf(f, n - 1)

InsertedBits == { to_bits(inserted[i].key) : i \in 1..Len(inserted) }

\* C11: after any sequence of entry(key).or_default().push(pair), there is
\* one group for each distinct key bit pattern inserted, a group holds
\* exactly the pairs inserted under its key's bit pattern, so that two pairs
\* share a group exactly when their keys are bit-identical and every pair
\* is in exactly one group, and a lookup with an inserted key returns that
\* key's group, for NaN and signed-zero keys too.
C11_GroupsAreBitPatterns ==
    /\ Cardinality(triangles) = Cardinality(InsertedBits)
    /\ \A e \in triangles : e.vals = PairsOf(e.key.v, Len(inserted))
    /\ \A i \in 1..Len(inserted) :
         Cardinality({ e \in triangles :
                         \E k \in 1..Len(e.vals) :
                            e.vals[k] = inserted[i].pair }) = 1
    /\ op = "get" =>
         res.got = IF to_bits(res.key) \in InsertedBits
                   THEN Some(PairsOf(res.key, Len(inserted)))
                   ELSE None

\* the same NaN has been inserted twice and +0.0 once: two groups, the
\* NaN's with two pairs, and a lookup of -0.0 finds nothing
C11_Witness ==
    /\ Len(inserted) = 3
    /\ \E i, j \in 1..3 :
         /\ i # j
         /\ IsNaN(inserted[i].key)
         /\ inserted[i].key = inserted[j].key
    /\ \E i \in 1..3 : IsZero(inserted[i].key) /\ inserted[i].key.sign = 0
    /\ Cardinality(triangles) = 2
    /\ \E e \in triangles : IsNaN(e.key.v) /\ Len(e.vals) = 2
    /\ op = "get"
    /\ IsZero(res.key) /\ res.key.sign = 1
    /\ res.got = None

BranchNormalise(val) ==
    IF val[1] = 1
    THEN [i \in 1..Len(val) |-> IF i = 1 THEN 1 ELSE 1 - val[i]]
    ELSE val

\* C13: for both widths the shifted mask is all ones except the sign bit
\* when val is negative and zero otherwise; so the key is val when the sign
\* bit is clear, and val with every bit but the sign bit flipped when it is
\* set: the result of the branch, for every input.
C13_MaskIsBranch ==
    op = "normalise" =>
        LET val == to_bits(a.v)
        IN  /\ val[1] = 1 => res.ma = <<0>> \o Fill(1, w - 1)
            /\ val[1] = 0 => res.ma = Fill(0, w)
            /\ val[1] = 0 => res.ka = val
            /\ val[1] = 1 =>
                 (res.ka[1] = 1 /\ \A i \in 2..w : res.ka[i] = 1 - val[i])
            /\ res.ka = BranchNormalise(val)

\* a negative subnormal has been normalised
C13_Witness ==
    /\ op = "normalise"
    /\ a.v.sign = 1
    /\ \A i \in 1..Len(a.v.exp) : a.v.exp[i] = 0
    /\ ~IsZero(a.v)
    /\ res.ma = <<0>> \o Fill(1, w - 1)
    /\ res.ka # to_bits(a.v)

Reverse(o) ==
    IF o = "Less" THEN "Greater" ELSE IF o = "Greater" THEN "Less" ELSE o

\* C14: cmp is a lawful total order and == an equivalence at both widths:
\* cmp(a, b) is the reverse of cmp(b, a); a < b and b < c give a < c; a == b
\* gives b == a; a == b and b == c give a == c.
C14_LawfulOrder ==
    /\ op = "cmp" =>
         /\ cmp(b, a) = Reverse(res)
         /\ res = "Less" =>
              \A c \in Floats(w) :
                 cmp(b, Wrap(c)) = "Less" => cmp(a, Wrap(c)) = "Less"
    /\ op = "eq" =>
         /\ eq(b, a) = res
         /\ res =>
              \A c \in Floats(w) : eq(b, Wrap(c)) => eq(a, Wrap(c))

\* a negative NaN has been found Less than a number that is Less than some
\* positive NaN
C14_Witness ==
    /\ op = "cmp"
    /\ res = "Less"
    /\ IsNaN(a.v) /\ a.v.sign = 1
    /\ ~IsNaN(b.v)
    /\ \E c \in Floats(w) :
         IsNaN(c) /\ c.sign = 0 /\ cmp(b, Wrap(c)) = "Less"

\* C15: the tests' negation, a flip of the sign bit, reverses the order at
\* both widths, for NaNs and zeros too: cmp(-a, -b) = cmp(b, a); the key of
\* -a is the bitwise complement of the key of a, that is -key(a) - 1, so
\* that the two keys add up to -1; and -(-a) has the bit pattern of a.
C15_NegReversesOrder ==
    /\ op = "neg_cmp" =>
         /\ res.ord = cmp(b, a)
         /\ normalise(res.na) = BitNot(normalise(a))
         /\ BitAdd(normalise(res.na), normalise(a)) = Fill(1, w)
         /\ to_bits(neg(res.na).v) = to_bits(a.v)
    /\ op = "neg" =>
         /\ normalise(b) = BitNot(normalise(res))
         /\ to_bits(neg(b).v) = to_bits(res.v)

\* a NaN and a zero have been negated and compared
C15_Witness ==
    /\ op = "neg_cmp"
    /\ IsNaN(a.v) /\ a.v.sign = 0
    /\ IsZero(b.v) /\ b.v.sign = 0
    /\ res.na.v.sign = 1
    /\ res.ord = "Less"

\* C16: FloatNormalise for f64 is the 64-bit normaliser: for every 64-bit
\* pattern it reads the whole pattern as an i64, takes the mask from the
\* sign bit at position 63, and returns the i64 key that
\* TotalF64::normalise returns.
C16_FloatNormaliseIsTotalF64 ==
    op = "float_normalise" =>
        /\ res.val = AsSigned(to_bits(a.v))
        /\ res.mask = TotalF64_mask(AsSigned(to_bits(a.v)))
        /\ res.key = TotalF64_normalise(a)
====
